---- MODULE Spec2Model ----
(***************************************************************************)
(* Tree layout of dict_graph: LayoutTree construction, the Buchheim first  *)
(* and second walk, extract_tree_layout and the axis transform of          *)
(* render_tree; and build_tree, the trie of a word list.                   *)
(*                                                                         *)
(* Floats are fixed-point integers: the float 1.0 is Unit.  Every division *)
(* the code performs is recorded in `exact`, which stays TRUE as long as   *)
(* no division left a remainder (ExactArithmetic).                         *)
(* Nodes are numbered in pre-order, so the children of a node, in their    *)
(* insertion order, are its children by increasing number.                 *)
(***************************************************************************)
EXTENDS Integers, Sequences, FiniteSets, TLC

\* ---------------------------------------------------------------- bounds
MaxNodes == 6
MaxLayoutNodes == 9
MaxDepthLimit == 4
MaxWords == 3
MaxWordLen == 2

\* ------------------------------------------------------------- constants
Unit == 240
None == 0
LayoutRoot == 1
DefaultLevelLimit == 15
dx == Unit
dy == Unit

VARIABLES
    tree,           \* source tree: tree[v] is the parent of v (None for the root)
    keep_root, depth_limit,
    pc,             \* position in render_tree / buchheim
    children, parent, sibling_index, level,
    x, y, mod, shift, change, ancestor, thread,
    fw_stack,       \* call stack of _first_walk
    ap,             \* locals of the running _apportion
    sw_stack,       \* pending calls of _second_walk, next call last
    prelim,         \* x and mod as the first walk left them
    min_x, bbox,
    key, tree_is_leaf, rankdir,
    branches, leaves, edges, positions,
    prev,           \* raw result of the previous call on the same tree
    exact,
    words,          \* the argument of build_tree
    t_value, t_children, t_is_leaf,    \* the Tree objects, by order of creation
    cur, word_i, char_i     \* locals of build_tree: cur, the word and the character reached

inputVars == <<tree, keep_root, depth_limit>>
structVars == <<children, parent, sibling_index, level>>
fieldVars == <<x, y, mod, shift, change, ancestor, thread>>
walkVars == <<fw_stack, ap, sw_stack, min_x, bbox>>
outVars == <<key, tree_is_leaf, rankdir, branches, leaves, edges, positions>>
trieVars == <<words, t_value, t_children, t_is_leaf, cur, word_i, char_i>>
vars == <<inputVars, pc, structVars, fieldVars, walkVars, prelim, outVars, prev, exact,
          trieVars, prelim>>

\* ----------------------------------------------------------- source tree
Last(s) == s[Len(s)]

RECURSIVE AncestorsOrSelf(_, _)
AncestorsOrSelf(t, v) ==
    IF v = None THEN {} ELSE {v} \cup AncestorsOrSelf(t, t[v])

\* Ordered rooted trees with n nodes, as parent sequences in pre-order.
RECURSIVE TreesOfSize(_)
TreesOfSize(n) ==
    IF n = 1 THEN {<<None>>}
    ELSE UNION {{Append(t, p) : p \in AncestorsOrSelf(t, n - 1)} :
                 t \in TreesOfSize(n - 1)}

Trees(maxn) == UNION {TreesOfSize(n) : n \in 1..maxn}

SrcNodes == 1..Len(tree)

SrcChildren(v) ==
    SelectSeq([i \in 1..Len(tree) |-> i], LAMBDA c : tree[c] = v)

RECURSIVE SrcDepth(_)
SrcDepth(v) == IF tree[v] = None THEN 0 ELSE 1 + SrcDepth(tree[v])

SrcHeight == CHOOSE h \in 0..Len(tree) :
    /\ \E v \in SrcNodes : SrcDepth(v) = h
    /\ \A v \in SrcNodes : SrcDepth(v) <= h

Range(s) == {s[i] : i \in 1..Len(s)}

\* ------------------------------------------------- LayoutTree.__init__
StartLevel(kr) == IF kr THEN 0 ELSE -1

MutHasChildren(lvl, level_limit) == lvl < level_limit - 2
MutHasChildrenDeeper(lvl, level_limit) == lvl < level_limit
HasChildren(lvl, level_limit) == lvl < level_limit - 1

\* The source nodes a LayoutTree is built for, below and including v.
RECURSIVE BuiltNodes(_, _, _)
BuiltNodes(v, lvl, level_limit) ==
    {v} \cup
    IF HasChildren(lvl, level_limit)
    THEN UNION {BuiltNodes(c, lvl + 1, level_limit) : c \in Range(SrcChildren(v))}
    ELSE {}

LayoutTreeInit(kr, level_limit) ==
    LET built == BuiltNodes(LayoutRoot, StartLevel(kr), level_limit)
        lvl == [v \in built |-> StartLevel(kr) + SrcDepth(v)]
        ch == [v \in built |->
                 IF HasChildren(lvl[v], level_limit) THEN SrcChildren(v) ELSE <<>>]
    IN  /\ children' = ch
        /\ parent' = [v \in built |-> tree[v]]
        /\ sibling_index' = [v \in built |->
              IF tree[v] = None THEN 0
              ELSE Cardinality({c \in Range(SrcChildren(tree[v])) : c < v})]
        /\ level' = lvl
        /\ x' = [v \in built |-> 0]
        /\ y' = [v \in built |-> lvl[v] * Unit]
        /\ mod' = [v \in built |-> 0]
        /\ shift' = [v \in built |-> 0]
        /\ change' = [v \in built |-> 0]
        /\ ancestor' = [v \in built |-> v]
        /\ thread' = [v \in built |-> None]

LayoutNodes == DOMAIN children

\* ------------------------------------------------ LayoutTree properties
LeftSibling(v) ==
    IF parent[v] # None /\ sibling_index[v] > 0
    THEN children[parent[v]][sibling_index[v]]
    ELSE None

LeftmostSibling(v) ==
    IF parent[v] # None THEN children[parent[v]][1] ELSE None

IsLeftmostSibling(v) == LeftSibling(v) = None

IsLeaf(v) == children[v] = <<>>

MutNextLeft(v) == IF IsLeaf(v) THEN None ELSE children[v][1]
NextLeft(v) == IF IsLeaf(v) THEN thread[v] ELSE children[v][1]

NextRight(v) == IF IsLeaf(v) THEN thread[v] ELSE Last(children[v])

MutBoundaryBox(v) == <<x[v], x[v], y[v], y[v]>>
RECURSIVE BoundaryBox(_)
BoundaryBox(v) ==
    IF IsLeaf(v) THEN <<x[v], x[v], y[v], y[v]>>
    ELSE LET boxes == {BoundaryBox(c) : c \in Range(children[v])}
             Min(S) == CHOOSE m \in S : \A k \in S : m <= k
             Max(S) == CHOOSE m \in S : \A k \in S : m >= k
         IN  << Min({x[v]} \cup {b[1] : b \in boxes}),
                Max({x[v]} \cup {b[2] : b \in boxes}),
                Min({y[v]} \cup {b[3] : b \in boxes}),
                Max({y[v]} \cup {b[4] : b \in boxes}) >>

\* ---------------------------------------------------------------- Init
NoAp == [v |-> None, vir |-> None, vor |-> None, vil |-> None, vol |-> None,
         sir |-> 0, sor |-> 0, sil |-> 0, sol |-> 0]

\* nothing laid out yet
LayoutIdle ==
    /\ keep_root = TRUE
    /\ depth_limit = DefaultLevelLimit
    /\ children = <<>> /\ parent = <<>> /\ sibling_index = <<>> /\ level = <<>>
    /\ x = <<>> /\ y = <<>> /\ mod = <<>> /\ shift = <<>> /\ change = <<>>
    /\ ancestor = <<>> /\ thread = <<>>
    /\ fw_stack = <<>> /\ ap = NoAp /\ sw_stack = <<>>
    /\ min_x = <<>> /\ bbox = <<>>
    /\ prelim = <<>>
    /\ key = <<>> /\ tree_is_leaf = <<>> /\ rankdir = "TB"
    /\ branches = <<>> /\ leaves = <<>> /\ edges = <<>> /\ positions = <<>>
    /\ prev = <<>>
    /\ exact = TRUE

\* build_tree not called
TrieIdle ==
    /\ words = <<>>
    /\ t_value = <<>> /\ t_children = <<>> /\ t_is_leaf = <<>>
    /\ cur = None /\ word_i = 0 /\ char_i = 0

InitWith(maxn) ==
    /\ tree \in Trees(maxn)
    /\ pc = "start"
    /\ LayoutIdle
    /\ TrieIdle

Init == InitWith(MaxNodes)

InitLayout == InitWith(MaxLayoutNodes)

\* ------------------------------------------------------------- entries
Frame(v, at, i, da) == [root |-> v, at |-> at, i |-> i, da |-> da]

StartBuchheim ==
    /\ pc' = "first_walk"
    /\ fw_stack' = <<Frame(LayoutRoot, "enter", 0, None)>>
    /\ ap' = NoAp /\ sw_stack' = <<>> /\ min_x' = <<>> /\ bbox' = <<>>
    /\ prelim' = <<>>

DepthLimits == -1 .. MaxDepthLimit

\* render_tree up to the call of buchheim
RenderTree ==
    /\ pc = "start"
    /\ \E kr \in BOOLEAN, dl \in DepthLimits :
          /\ keep_root' = kr
          /\ depth_limit' = dl
          /\ LayoutTreeInit(kr, dl)
    /\ StartBuchheim
    /\ UNCHANGED <<tree, outVars, prev, exact, trieVars>>

\* buchheim(LayoutTree(tree)) with the constructor's defaults
LayoutDefault ==
    /\ pc = "start"
    /\ LayoutTreeInit(TRUE, DefaultLevelLimit)
    /\ StartBuchheim
    /\ UNCHANGED <<inputVars, outVars, prev, exact, trieVars>>

\* --------------------------------------------------------- _first_walk
Top == fw_stack[Len(fw_stack)]

SetTop(f) == [fw_stack EXCEPT ![Len(fw_stack)] = f]

\* Return from a call of _first_walk; the outermost return starts _second_walk.
Return ==
    IF Len(fw_stack) = 1
    THEN /\ fw_stack' = <<>>
         /\ pc' = "second_walk"
         /\ sw_stack' = <<[v |-> LayoutRoot, shift |-> 0, start_y |-> <<>>]>>
    ELSE /\ fw_stack' = SubSeq(fw_stack, 1, Len(fw_stack) - 1)
         /\ pc' = pc
         /\ sw_stack' = sw_stack

\* buchheim.py 23-27: a leaf
FirstWalkLeaf ==
    /\ pc = "first_walk"
    /\ Top.at = "enter"
    /\ IsLeaf(Top.root)
    /\ x' = [x EXCEPT ![Top.root] =
                IF IsLeftmostSibling(Top.root) THEN 0
                ELSE x[LeftSibling(Top.root)] + dx]
    /\ Return
    /\ UNCHANGED <<inputVars, structVars, y, mod, shift, change, ancestor, thread,
                   ap, min_x, bbox, outVars, prev, exact, trieVars, prelim>>

\* buchheim.py 32-34: default_ancestor and the call for the first child
FirstWalkEnter ==
    /\ pc = "first_walk"
    /\ Top.at = "enter"
    /\ ~IsLeaf(Top.root)
    /\ LET w == children[Top.root][1]
       IN  fw_stack' = Append(SetTop(Frame(Top.root, "apportion", 1, w)),
                              Frame(w, "enter", 0, None))
    /\ UNCHANGED <<inputVars, pc, structVars, fieldVars, ap, sw_stack, min_x, bbox,
                   outVars, prev, exact, trieVars, prelim>>

\* buchheim.py 33-34: the call for the next child
FirstWalkNextChild ==
    /\ pc = "first_walk"
    /\ Top.at = "next"
    /\ Top.i < Len(children[Top.root])
    /\ LET w == children[Top.root][Top.i + 1]
       IN  fw_stack' = Append(SetTop(Frame(Top.root, "apportion", Top.i + 1, Top.da)),
                              Frame(w, "enter", 0, None))
    /\ UNCHANGED <<inputVars, pc, structVars, fieldVars, ap, sw_stack, min_x, bbox,
                   outVars, prev, exact, trieVars, prelim>>

\* buchheim.py 51-60: _apportion up to its loop
ApportionBegin ==
    /\ pc = "first_walk"
    /\ Top.at = "apportion"
    /\ LET v == children[Top.root][Top.i]
           v_ == LeftSibling(v)
       IN  IF v_ # None
           THEN /\ ap' = [v |-> v, vir |-> v, vor |-> v, vil |-> v_,
                          vol |-> LeftmostSibling(v),
                          sir |-> mod[v], sor |-> mod[v],
                          sil |-> mod[v_], sol |-> mod[LeftmostSibling(v)]]
                /\ fw_stack' = SetTop([Top EXCEPT !.at = "loop"])
           ELSE /\ ap' = NoAp
                /\ fw_stack' = SetTop([Top EXCEPT !.at = "next"])
    /\ UNCHANGED <<inputVars, pc, structVars, fieldVars, sw_stack, min_x, bbox,
                   outVars, prev, exact, trieVars, prelim>>

MutConflictShift(xl, sl, xr, sr) == (xl + sl) - (xr + sr)
ConflictShift(xl, sl, xr, sr) == (xl + sl) - (xr + sr) + dx

MutAncestor(anc, vil, v, default_ancestor) ==
    IF anc[vil] \in Range(children[parent[v]]) THEN anc[vil] ELSE v
\* buchheim.py 132-139
Ancestor(anc, vil, v, default_ancestor) ==
    IF anc[vil] \in Range(children[parent[v]]) THEN anc[vil] ELSE default_ancestor

Subtrees(wl, wr) == sibling_index[wr] - sibling_index[wl]

MutShiftSubtrees(st, wl, wr, shift_amount) ==
    LET part == shift_amount \div Subtrees(wl, wr)
        change1 == [st.change EXCEPT ![wr] = @ - part]
    IN  [x |-> [st.x EXCEPT ![wr] = @ + shift_amount],
         mod |-> st.mod,
         shift |-> [st.shift EXCEPT ![wr] = @ + shift_amount],
         change |-> [change1 EXCEPT ![wl] = @ + part]]
\* buchheim.py 104-114; st holds the fields x, mod, shift, change
ShiftSubtrees(st, wl, wr, shift_amount) ==
    LET part == shift_amount \div Subtrees(wl, wr)
        change1 == [st.change EXCEPT ![wr] = @ - part]
    IN  [x |-> [st.x EXCEPT ![wr] = @ + shift_amount],
         mod |-> [st.mod EXCEPT ![wr] = @ + shift_amount],
         shift |-> [st.shift EXCEPT ![wr] = @ + shift_amount],
         change |-> [change1 EXCEPT ![wl] = @ + part]]

LoopCondition == NextRight(ap.vil) # None /\ NextLeft(ap.vir) # None

\* buchheim.py 63-79: one iteration of the contour loop
ApportionLoop ==
    /\ pc = "first_walk"
    /\ Top.at = "loop"
    /\ LoopCondition
    /\ LET v == ap.v
           vil == NextRight(ap.vil)
           vir == NextLeft(ap.vir)
           vol == NextLeft(ap.vol)
           vor == NextRight(ap.vor)
       IN  IF vol = None \/ vor = None
           THEN \* AttributeError on None
                /\ pc' = "raised"
                /\ UNCHANGED <<fieldVars, ap, exact>>
           ELSE LET anc1 == [ancestor EXCEPT ![vor] = v]
                    sh == ConflictShift(x[vil], ap.sil, x[vir], ap.sir)
                    wl == Ancestor(anc1, vil, v, Top.da)
                    st0 == [x |-> x, mod |-> mod, shift |-> shift, change |-> change]
                IN  IF sh > 0 /\ Subtrees(wl, v) = 0
                    THEN \* ZeroDivisionError
                         /\ pc' = "raised"
                         /\ ancestor' = anc1
                         /\ UNCHANGED <<x, y, mod, shift, change, thread, ap, exact>>
                    ELSE LET st == IF sh > 0 THEN ShiftSubtrees(st0, wl, v, sh) ELSE st0
                             sir1 == IF sh > 0 THEN ap.sir + sh ELSE ap.sir
                             sor1 == IF sh > 0 THEN ap.sor + sh ELSE ap.sor
                         IN  /\ pc' = pc
                             /\ ancestor' = anc1
                             /\ x' = st.x /\ mod' = st.mod
                             /\ shift' = st.shift /\ change' = st.change
                             /\ exact' = (exact /\ (sh > 0 => sh % Subtrees(wl, v) = 0))
                             /\ ap' = [v |-> v, vir |-> vir, vor |-> vor,
                                       vil |-> vil, vol |-> vol,
                                       sil |-> ap.sil + st.mod[vil],
                                       sir |-> sir1 + st.mod[vir],
                                       sol |-> ap.sol + st.mod[vol],
                                       sor |-> sor1 + st.mod[vor]]
                             /\ UNCHANGED <<y, thread>>
    /\ UNCHANGED <<inputVars, structVars, fw_stack, sw_stack, min_x, bbox,
                   outVars, prev, trieVars, prelim>>

MutApportionEnd ==
    /\ pc = "first_walk"
    /\ Top.at = "loop"
    /\ ~LoopCondition
    /\ IF NextRight(ap.vil) # None /\ NextRight(ap.vor) = None
       THEN /\ thread' = [thread EXCEPT ![ap.vor] = NextRight(ap.vil)]
            /\ mod' = [mod EXCEPT ![ap.vor] = @ + ap.sil - ap.sor]
            /\ fw_stack' = SetTop([Top EXCEPT !.at = "next", !.da = ap.v])
       ELSE /\ IF NextLeft(ap.vir) # None /\ NextLeft(ap.vol) = None
               THEN /\ thread' = [thread EXCEPT ![ap.vol] = NextLeft(ap.vir)]
                    /\ mod' = [mod EXCEPT ![ap.vol] = @ + ap.sir - ap.sol]
               ELSE UNCHANGED <<thread, mod>>
            /\ fw_stack' = SetTop([Top EXCEPT !.at = "next", !.da = ap.v])
    /\ ap' = NoAp
    /\ UNCHANGED <<inputVars, pc, structVars, x, y, shift, change, ancestor,
                   sw_stack, min_x, bbox, outVars, prev, exact, trieVars, prelim>>
\* buchheim.py 80-88: threads and the returned default_ancestor
ApportionEnd ==
    /\ pc = "first_walk"
    /\ Top.at = "loop"
    /\ ~LoopCondition
    /\ IF NextRight(ap.vil) # None /\ NextRight(ap.vor) = None
       THEN /\ thread' = [thread EXCEPT ![ap.vor] = NextRight(ap.vil)]
            /\ mod' = [mod EXCEPT ![ap.vor] = @ + ap.sil - ap.sor]
            /\ fw_stack' = SetTop([Top EXCEPT !.at = "next"])
       ELSE /\ IF NextLeft(ap.vir) # None /\ NextLeft(ap.vol) = None
               THEN /\ thread' = [thread EXCEPT ![ap.vol] = NextLeft(ap.vir)]
                    /\ mod' = [mod EXCEPT ![ap.vol] = @ + ap.sir - ap.sol]
               ELSE UNCHANGED <<thread, mod>>
            /\ fw_stack' = SetTop([Top EXCEPT !.at = "next", !.da = ap.v])
    /\ ap' = NoAp
    /\ UNCHANGED <<inputVars, pc, structVars, x, y, shift, change, ancestor,
                   sw_stack, min_x, bbox, outVars, prev, exact, trieVars, prelim>>

\* buchheim.py 124-129: children k..1 of ch, right to left
RECURSIVE ShiftTree(_, _, _, _, _)
ShiftTree(ch, k, sh, chg, st) ==
    IF k = 0 THEN st
    ELSE LET w == ch[k]
             chg1 == chg + change[w]
         IN  ShiftTree(ch, k - 1, sh + shift[w] + chg1, chg1,
                       [x |-> [st.x EXCEPT ![w] = @ + sh],
                        mod |-> [st.mod EXCEPT ![w] = @ + sh]])

Midpoint(a, b) == (a + b) \div 2

MutModOf(xnew, midpoint) == 0
ModOf(xnew, midpoint) == xnew - midpoint

\* buchheim.py 36-47: after the loop over the children
FirstWalkFinish ==
    /\ pc = "first_walk"
    /\ Top.at = "next"
    /\ Top.i = Len(children[Top.root])
    /\ LET r == Top.root
           ch == children[r]
           st == ShiftTree(ch, Len(ch), 0, 0, [x |-> x, mod |-> mod])
           midpoint == Midpoint(st.x[ch[1]], st.x[Last(ch)])
           w == LeftSibling(r)
       IN  /\ exact' = (exact /\ (st.x[ch[1]] + st.x[Last(ch)]) % 2 = 0)
           /\ IF w # None
              THEN /\ x' = [st.x EXCEPT ![r] = st.x[w] + dx]
                   /\ mod' = [st.mod EXCEPT ![r] = ModOf(st.x[w] + dx, midpoint)]
              ELSE /\ x' = [st.x EXCEPT ![r] = midpoint]
                   /\ mod' = st.mod
    /\ Return
    /\ UNCHANGED <<inputVars, structVars, y, shift, change, ancestor, thread,
                   ap, min_x, bbox, outVars, prev, trieVars, prelim>>

\* -------------------------------------------------------- _second_walk
RECURSIVE Reverse(_)
Reverse(s) == IF s = <<>> THEN <<>> ELSE Append(Reverse(Tail(s)), Head(s))

MutShiftForChildren(sh, m) == m
ShiftForChildren(sh, m) == sh + m

\* buchheim.py 154-168 for one node; the calls for its children are pending
SecondWalk ==
    /\ pc = "second_walk"
    /\ sw_stack # <<>>
    /\ LET f == Last(sw_stack)
           r == f.v
           xr == x[r] + f.shift
           start_y == IF f.start_y # <<>> THEN f.start_y[1] ELSE y[r]
           calls == [i \in 1..Len(children[r]) |->
                       [v |-> children[r][i],
                        shift |-> ShiftForChildren(f.shift, mod[r]),
                        start_y |-> <<start_y + dy>>]]
           rest == SubSeq(sw_stack, 1, Len(sw_stack) - 1) \o Reverse(calls)
       IN  /\ x' = [x EXCEPT ![r] = xr]
           /\ y' = [y EXCEPT ![r] = start_y]
           /\ min_x' = IF min_x = <<>> \/ xr < min_x[1] THEN <<xr>> ELSE min_x
           /\ prelim' = IF min_x = <<>> THEN <<[x |-> x, mod |-> mod]>> ELSE prelim
           /\ sw_stack' = rest
           /\ pc' = IF rest = <<>> THEN "boundary_box" ELSE pc
    /\ UNCHANGED <<inputVars, structVars, mod, shift, change, ancestor, thread,
                   fw_stack, ap, bbox, outVars, prev, exact, trieVars>>

\* buchheim.py 16: the boundary box buchheim returns
BuchheimReturn ==
    /\ pc = "boundary_box"
    /\ bbox' = BoundaryBox(LayoutRoot)
    /\ pc' = "extract"
    /\ UNCHANGED <<inputVars, structVars, fieldVars, fw_stack, ap, sw_stack, min_x,
                   outVars, prev, exact, trieVars, prelim>>

BuchheimSteps ==
    \/ FirstWalkLeaf
    \/ FirstWalkEnter
    \/ FirstWalkNextChild
    \/ ApportionBegin
    \/ ApportionLoop
    \/ ApportionEnd
    \/ FirstWalkFinish
    \/ SecondWalk
    \/ BuchheimReturn

NextLayout == LayoutDefault \/ BuchheimSteps

SpecLayout == InitLayout /\ [][NextLayout]_vars

\* no division of the first walk left a remainder
ExactArithmetic == exact

\* test_layout.py 20-42: the x of the trie of "ab", "ac", "abcd", "abce"
TestTrieLayout ==
    (pc = "extract" /\ tree = <<None, 1, 2, 3, 4, 4, 2>>) =>
        x = <<Unit, Unit, Unit \div 2, Unit \div 2, 0, Unit, (3 * Unit) \div 2>>

\* ------------------------------------------------- extract_tree_layout
\* A dict is the sequence of its items <<key, value>> in insertion order.
Keys(d) == {d[i][1] : i \in 1..Len(d)}

DictSet(d, k, val) ==
    IF k \in Keys(d)
    THEN [i \in 1..Len(d) |-> IF d[i][1] = k THEN <<k, val>> ELSE d[i]]
    ELSE Append(d, <<k, val>>)

DictGet(d, k) == (CHOOSE i \in 1..Len(d) : d[i][1] = k)

Value(v) == v

\* layout.py 218 and 160-163: the first queue
MutExtractStart(kr) == <<LayoutRoot>>
ExtractStart(kr) == IF kr THEN <<LayoutRoot>> ELSE children[LayoutRoot]

MutEdgeOf(curr_key, child_key) == <<child_key, curr_key>>
EdgeOf(curr_key, child_key) == <<curr_key, child_key>>

EmptyLayout == [branches |-> <<>>, leaves |-> <<>>, positions |-> <<>>, edges |-> <<>>]

MutExtractNode(acc, l_tree, keyf, flags) ==
    LET curr_key == keyf[l_tree]
        ch == children[l_tree]
    IN  [branches |-> IF IsLeaf(l_tree) THEN acc.branches
                      ELSE DictSet(acc.branches, curr_key, Value(l_tree)),
         leaves |-> IF IsLeaf(l_tree) THEN DictSet(acc.leaves, curr_key, Value(l_tree))
                    ELSE acc.leaves,
         positions |-> DictSet(acc.positions, curr_key, <<x[l_tree], y[l_tree]>>),
         edges |-> acc.edges \o [j \in 1..Len(ch) |-> EdgeOf(curr_key, keyf[ch[j]])]]
\* layout.py 172-179 for the node l_tree
ExtractNode(acc, l_tree, keyf, flags) ==
    LET curr_key == keyf[l_tree]
        ch == children[l_tree]
    IN  [branches |-> IF flags[l_tree] THEN acc.branches
                      ELSE DictSet(acc.branches, curr_key, Value(l_tree)),
         leaves |-> IF flags[l_tree] THEN DictSet(acc.leaves, curr_key, Value(l_tree))
                    ELSE acc.leaves,
         positions |-> DictSet(acc.positions, curr_key, <<x[l_tree], y[l_tree]>>),
         edges |-> acc.edges \o [j \in 1..Len(ch) |-> EdgeOf(curr_key, keyf[ch[j]])]]

RECURSIVE MutExtractLoop(_, _, _, _, _, _)
MutExtractLoop(q, i, next_q, acc, keyf, flags) ==
    IF i > Len(q) THEN acc
    ELSE MutExtractLoop(children[q[i]] \o SubSeq(q, i + 1, Len(q)), 1, next_q,
                        ExtractNode(acc, q[i], keyf, flags), keyf, flags)
\* layout.py 169-181: q from its i-th node on, then next_q
RECURSIVE ExtractLoop(_, _, _, _, _, _)
ExtractLoop(q, i, next_q, acc, keyf, flags) ==
    IF i > Len(q)
    THEN IF next_q = <<>> THEN acc
         ELSE ExtractLoop(next_q, 1, <<>>, acc, keyf, flags)
    ELSE ExtractLoop(q, i + 1, next_q \o children[q[i]],
                     ExtractNode(acc, q[i], keyf, flags), keyf, flags)

EmittedNodes == IF keep_root THEN LayoutNodes ELSE LayoutNodes \ {LayoutRoot}

\* key functions: the default (one id per object) and those that give two
\* emitted nodes the same id
IdKey == [v \in LayoutNodes |-> v]

CollidingKeys ==
    {[IdKey EXCEPT ![b] = a] : a \in EmittedNodes, b \in EmittedNodes} \ {IdKey}

\* is_leaf of the source nodes: true iff the node has no children, a trie
\* in which one more node ends a word, or never set
Structural == [v \in SrcNodes |-> SrcChildren(v) = <<>>]

FlagChoices ==
    {Structural, [v \in SrcNodes |-> FALSE]}
    \cup {[Structural EXCEPT ![w] = TRUE] : w \in SrcNodes}

ExtractInputs ==
    {<<IdKey, f>> : f \in FlagChoices} \cup {<<k, Structural>> : k \in CollidingKeys}

\* layout.py 217-219
ExtractTreeLayout ==
    /\ pc = "extract"
    /\ \E inp \in ExtractInputs :
          LET out == ExtractLoop(ExtractStart(keep_root), 1, <<>>, EmptyLayout,
                                 inp[1], inp[2])
          IN  /\ key' = inp[1]
              /\ tree_is_leaf' = inp[2]
              /\ branches' = out.branches
              /\ leaves' = out.leaves
              /\ edges' = out.edges
              /\ positions' = out.positions
    /\ pc' = "transform"
    /\ UNCHANGED <<inputVars, structVars, fieldVars, walkVars, rankdir, prev, exact, trieVars, prelim>>

\* ----------------------------------------------------- _transform_axes
RankDirs == {"TB", "BT", "LR", "RL", "RADIAL"}

RankDirInputs == RankDirs \cup {"XX"}

\* np.dot of the row p and the 2x2 matrix m
Dot(p, m) == <<p[1] * m[1][1] + p[2] * m[2][1], p[1] * m[1][2] + p[2] * m[2][2]>>

\* layout.py 249-262 in polar form: <<r, numerator and denominator of theta / 2 pi>>
Radial(p, x0, y0, x1, y1) ==
    <<(p[2] - y0) + (y1 - y0) \div 5, p[1] - x0, (x1 - x0) + Unit>>

MinOf(S) == CHOOSE m \in S : \A k \in S : m <= k

MaxOf(S) == CHOOSE m \in S : \A k \in S : m >= k

MutTransformRow(p, rd, xy) ==
    IF rd = "TB" THEN <<p[1], p[2]>>
    ELSE IF rd = "LR" THEN Dot(p, <<<<0, 1>>, <<-1, 0>>>>)
    ELSE IF rd = "RL" THEN Dot(p, <<<<0, 1>>, <<1, 0>>>>)
    ELSE p
\* layout.py 242-264 for one row p of the array xy
TransformRow(p, rd, xy) ==
    IF rd = "TB" THEN <<p[1], p[2] * (-1)>>
    ELSE IF rd = "LR" THEN Dot(p, <<<<0, -1>>, <<1, 0>>>>)
    ELSE IF rd = "RL" THEN Dot(p, <<<<0, -1>>, <<-1, 0>>>>)
    ELSE IF rd = "RADIAL"
         THEN Radial(p, MinOf({r[1] : r \in Range(xy)}), MinOf({r[2] : r \in Range(xy)}),
                        MaxOf({r[1] : r \in Range(xy)}), MaxOf({r[2] : r \in Range(xy)}))
    ELSE p

\* layout.py 240 and 266
TransformAxes(pos, rd) ==
    LET xy == [i \in 1..Len(pos) |-> pos[i][2]]
    IN  [i \in 1..Len(pos) |-> <<pos[i][1], TransformRow(xy[i], rd, xy)>>]

\* numpy raises on the empty array for these (IndexError, ValueError)
RaisesOnEmpty(rd) == rd \in {"TB", "LR", "RL", "RADIAL"}

\* layout.py 221-224
TransformAndReturn ==
    /\ pc = "transform"
    /\ \E rd \in RankDirInputs :
          /\ rankdir' = rd
          /\ IF rd # "BT"
             THEN IF positions = <<>> /\ RaisesOnEmpty(rd)
                  THEN pc' = "raised" /\ positions' = positions
                  ELSE pc' = "done" /\ positions' = TransformAxes(positions, rd)
             ELSE pc' = "done" /\ positions' = positions
    /\ UNCHANGED <<inputVars, structVars, fieldVars, walkVars, key, tree_is_leaf,
                   branches, leaves, edges, prev, exact, trieVars, prelim>>

Next == RenderTree \/ BuchheimSteps \/ ExtractTreeLayout \/ TransformAndReturn

Spec == Init /\ [][Next]_vars

\* ------------------------------------------- two calls on the same tree
\* A second render_tree on the same tree with the same depth_limit and the
\* other keep_root, the raw layout of the first call being kept in prev.
RenderAgain ==
    /\ pc = "extract"
    /\ prev = <<>>
    /\ prev' = <<[keep_root |-> keep_root, depth_limit |-> depth_limit,
                  emitted |-> EmittedNodes, x |-> x, y |-> y]>>
    /\ keep_root' = ~keep_root
    /\ depth_limit' = depth_limit
    /\ LayoutTreeInit(~keep_root, depth_limit)
    /\ StartBuchheim
    /\ UNCHANGED <<tree, outVars, exact, trieVars>>

NextPair == RenderTree \/ BuchheimSteps \/ RenderAgain

SpecPair == Init /\ [][NextPair]_vars

\* ---------------------------------------------------------- build_tree
Alphabet == {"a", "b"}

\* a string is the sequence of its characters
Strings == UNION {[1..n -> Alphabet] : n \in 0..MaxWordLen}

WordLists == UNION {[1..n -> Strings] : n \in 0..MaxWords}

TrieRoot == 1

layoutVars == <<inputVars, structVars, fieldVars, walkVars, prelim, outVars, prev, exact>>

InitTrie ==
    /\ tree = <<None>>
    /\ pc = "build_tree"
    /\ LayoutIdle
    /\ words \in WordLists
    /\ t_value = <<>> /\ t_children = <<>> /\ t_is_leaf = <<>>
    /\ cur = None /\ word_i = 0 /\ char_i = 0

\* the item d[k] replaced or appended, as by d[k] = default
MutSetDefault(d, k, default) ==
    [d |-> DictSet(d, k, default), val |-> default]
\* dict.setdefault: the dict afterwards and the value returned
SetDefault(d, k, default) ==
    IF k \in Keys(d)
    THEN [d |-> d, val |-> d[DictGet(d, k)][2]]
    ELSE [d |-> Append(d, <<k, default>>), val |-> default]

\* utils.py 18: root = Tree("")
BuildTreeStart ==
    /\ pc = "build_tree"
    /\ t_value' = <<"">>
    /\ t_children' = << <<>> >>
    /\ t_is_leaf' = <<FALSE>>
    /\ word_i' = 1
    /\ pc' = "for_word"
    /\ UNCHANGED <<layoutVars, words, cur, char_i>>

\* utils.py 20-21: the next word, cur = root
NextWord ==
    /\ pc = "for_word"
    /\ word_i <= Len(words)
    /\ cur' = TrieRoot
    /\ char_i' = 1
    /\ pc' = "for_char"
    /\ UNCHANGED <<layoutVars, words, t_value, t_children, t_is_leaf, word_i>>

\* utils.py 22-23: cur = cur.children.setdefault(c, Tree(c))
NextChar ==
    /\ pc = "for_char"
    /\ char_i <= Len(words[word_i])
    /\ LET c == words[word_i][char_i]
           new == Len(t_value) + 1
           sd == SetDefault(t_children[cur], c, new)
       IN  IF sd.val = new
           THEN /\ t_value' = Append(t_value, c)
                /\ t_children' = Append([t_children EXCEPT ![cur] = sd.d], <<>>)
                /\ t_is_leaf' = Append(t_is_leaf, FALSE)
                /\ cur' = new
           ELSE /\ cur' = sd.val
                /\ UNCHANGED <<t_value, t_children, t_is_leaf>>
    /\ char_i' = char_i + 1
    /\ UNCHANGED <<layoutVars, pc, words, word_i>>

\* utils.py 24: cur.is_leaf = True
EndWord ==
    /\ pc = "for_char"
    /\ char_i > Len(words[word_i])
    /\ t_is_leaf' = [t_is_leaf EXCEPT ![cur] = TRUE]
    /\ word_i' = word_i + 1
    /\ pc' = "for_word"
    /\ UNCHANGED <<layoutVars, words, t_value, t_children, cur, char_i>>

\* utils.py 26: return root
BuildTreeReturn ==
    /\ pc = "for_word"
    /\ word_i > Len(words)
    /\ pc' = "built"
    /\ UNCHANGED <<layoutVars, trieVars>>

NextTrie == BuildTreeStart \/ NextWord \/ NextChar \/ EndWord \/ BuildTreeReturn

SpecTrie == InitTrie /\ [][NextTrie]_vars

\* ============================================================== claims
\* buchheim has returned: the x and y of the layout nodes are final
LayoutDone == pc \in {"extract", "transform", "done"}

\* extract_tree_layout has returned branches, leaves, edges and positions
Extracted == pc \in {"transform", "done"}

RECURSIVE PathOf(_)
PathOf(v) ==
    IF parent[v] = None THEN <<>> ELSE Append(PathOf(parent[v]), sibling_index[v])

\* u comes before v in the left-to-right order of their common level
LeftOf(u, v) ==
    LET pu == PathOf(u)
        pv == PathOf(v)
    IN  /\ Len(pu) = Len(pv)
        /\ \E i \in 1..Len(pu) :
              /\ pu[i] < pv[i]
              /\ \A j \in 1..(i - 1) : pu[j] = pv[j]

KeyInjective == \A u, v \in EmittedNodes : key[u] = key[v] => u = v

PositionOf(k) == positions[DictGet(positions, k)][2]

\* C1: after buchheim, of two distinct nodes of one level the one later in
\* left-to-right order has a final x at least dx greater than the other; so
\* two leaf children of one parent are never closer than dx.
C1_SameLevelSpacing ==
    LayoutDone =>
        \A u, v \in LayoutNodes :
            (level[u] = level[v] /\ LeftOf(u, v)) => x[v] - x[u] >= dx

\* a finished layout in which a subtree was pushed right past a smaller
\* subtree in between, and a contour was threaded
C1_Witness ==
    /\ LayoutDone
    /\ \E v \in LayoutNodes : shift[v] > 0 /\ 2 * change[v] = 0 - shift[v]
    /\ \E v \in LayoutNodes : thread[v] # None
    /\ \E u, v \in LayoutNodes :
          /\ IsLeaf(u) /\ IsLeaf(v) /\ parent[u] = parent[v] /\ LeftOf(u, v)

\* C2: with an injective key, the keys of branches and leaves are disjoint,
\* their union is the key set of positions, and that is exactly the set of
\* ids of the emitted nodes, each emitted node having one entry.
C2_BranchesLeavesPartition ==
    (Extracted /\ KeyInjective) =>
        /\ Keys(branches) \cap Keys(leaves) = {}
        /\ Keys(branches) \cup Keys(leaves) = Keys(positions)
        /\ Keys(positions) = {key[v] : v \in EmittedNodes}
        /\ Len(positions) = Cardinality(EmittedNodes)
        /\ Len(branches) + Len(leaves) = Cardinality(EmittedNodes)

\* a returned result without the root, with branches and leaves
C2_Witness ==
    /\ pc = "done" /\ KeyInjective /\ ~keep_root
    /\ Len(branches) >= 2 /\ Len(leaves) >= 2

\* C3: with an injective key, both ends of every edge are keys of positions,
\* the first end is the id of the layout parent of the node whose id is the
\* second end, every emitted node whose parent is emitted is the second end
\* of exactly one edge, and the other emitted nodes of none.
C3_EdgesForest ==
    (Extracted /\ KeyInjective) =>
        /\ \A i \in 1..Len(edges) :
              /\ edges[i][1] \in Keys(positions)
              /\ edges[i][2] \in Keys(positions)
              /\ \E c \in EmittedNodes :
                    /\ key[c] = edges[i][2]
                    /\ parent[c] \in EmittedNodes
                    /\ key[parent[c]] = edges[i][1]
        /\ \A c \in EmittedNodes :
              Cardinality({i \in 1..Len(edges) : edges[i][2] = key[c]})
                 = IF parent[c] \in EmittedNodes THEN 1 ELSE 0

\* a returned forest of two trees (the root is left out) with edges
C3_Witness ==
    /\ pc = "done" /\ KeyInjective /\ ~keep_root
    /\ Len(children[LayoutRoot]) >= 2
    /\ Len(edges) >= 3

\* C4 as stated: no node whose layout level is greater than or equal to
\* depth_limit - 1 is in the layout tree.
C4_Original ==
    pc # "start" => \A v \in LayoutNodes : level[v] < depth_limit - 1

\* C4 amended: apart from the layout root, which is always built, no node
\* whose level is greater than depth_limit - 1 is in the layout tree or the
\* output; a node has layout children only if its level is strictly less
\* than depth_limit - 1, and then all the children of its source node.
C4_DepthLimitPruning ==
    pc # "start" =>
        /\ \A v \in LayoutNodes :
              /\ v # LayoutRoot => level[v] <= depth_limit - 1
              /\ children[v] # <<>> => level[v] < depth_limit - 1
              /\ level[v] < depth_limit - 1 => children[v] = SrcChildren(v)
              /\ Range(children[v]) \subseteq LayoutNodes
        /\ Extracted =>
              \A i \in 1..Len(positions) :
                 \E v \in EmittedNodes :
                    /\ key[v] = positions[i][1]
                    /\ v # LayoutRoot => level[v] <= depth_limit - 1

\* a returned result with a node at level depth_limit - 1 whose children
\* were pruned
C4_Witness ==
    /\ pc = "done"
    /\ \E v \in EmittedNodes :
          /\ level[v] = depth_limit - 1
          /\ SrcChildren(v) # <<>>
          /\ children[v] = <<>>
          /\ key[v] \in Keys(positions)

BothEmitted == EmittedNodes \cap prev[1].emitted

SecondCallDone == pc = "extract" /\ prev # <<>>

\* C5 as stated: for the same tree and depth_limit, every two nodes emitted
\* with keep_root=False and with keep_root=True have the same difference of
\* raw x in both runs.
C5_Original ==
    SecondCallDone =>
        \A u, v \in BothEmitted : x[u] - x[v] = prev[1].x[u] - prev[1].x[v]

\* C5 amended: the same, provided the source tree has no node deeper than
\* depth_limit - 1 below its root, so that the depth limit prunes nothing
\* in either run.
C5_KeepRootSpacing ==
    (SecondCallDone /\ SrcHeight < depth_limit) =>
        /\ prev[1].keep_root # keep_root /\ prev[1].depth_limit = depth_limit
        /\ BothEmitted = SrcNodes \ {LayoutRoot}
        /\ \A u, v \in BothEmitted : x[u] - x[v] = prev[1].x[u] - prev[1].x[v]

\* both runs done on an unpruned tree in which a subtree was pushed right
C5_Witness ==
    /\ SecondCallDone /\ SrcHeight < depth_limit
    /\ \E v \in LayoutNodes : shift[v] > 0
    /\ \E u, v \in BothEmitted : x[u] # x[v]

OneEntryPerNode ==
    /\ Len(positions) = Cardinality(EmittedNodes)
    /\ \A v \in EmittedNodes : key[v] \in Keys(positions)

\* C6: an emitted node with raw position (x, y) is returned at (x, -y) for
\* TB, (x, y) for BT and (-y, -x) for RL, under its own key (the key is
\* injective, as C2 requires).
C6_TransformTbBtRl ==
    (pc = "done" /\ KeyInjective /\ rankdir \in {"TB", "BT", "RL"}) =>
        /\ OneEntryPerNode
        /\ \A v \in EmittedNodes :
              PositionOf(key[v]) =
                 IF rankdir = "TB" THEN <<x[v], 0 - y[v]>>
                 ELSE IF rankdir = "BT" THEN <<x[v], y[v]>>
                 ELSE <<0 - y[v], 0 - x[v]>>

\* a result returned for RL with a node off both axes
C6_Witness ==
    /\ pc = "done" /\ KeyInjective /\ rankdir = "RL"
    /\ \E v \in EmittedNodes :
          x[v] # 0 /\ y[v] # 0 /\ PositionOf(key[v]) = <<0 - y[v], 0 - x[v]>>

\* C7 as stated: with rankdir LR the node with raw position (x, y) is
\* returned at (-y, x).
C7_Original ==
    (pc = "done" /\ KeyInjective /\ rankdir = "LR") =>
        \A v \in EmittedNodes : PositionOf(key[v]) = <<0 - y[v], x[v]>>

\* C7 amended: with rankdir LR the node with raw position (x, y) is
\* returned at (y, -x).
C7_TransformLr ==
    (pc = "done" /\ KeyInjective /\ rankdir = "LR") =>
        /\ OneEntryPerNode
        /\ \A v \in EmittedNodes : PositionOf(key[v]) = <<y[v], 0 - x[v]>>

\* a result returned for LR with a node off both axes
C7_Witness ==
    /\ pc = "done" /\ KeyInjective /\ rankdir = "LR"
    /\ \E v \in EmittedNodes :
          x[v] # 0 /\ y[v] # 0 /\ PositionOf(key[v]) = <<y[v], 0 - x[v]>>

\* C8: extract_tree_layout returns a result only if the key gave no two
\* emitted layout nodes the same id.
C8_FailFastOnCollision ==
    Extracted => KeyInjective

\* C9: render_tree returns a result only for depth_limit > 0 and a rankdir
\* among TB, BT, LR, RL, RADIAL.
C9_ValidConfigurationOnly ==
    pc = "done" => (depth_limit > 0 /\ rankdir \in RankDirs)

\* C10: after buchheim every node with children has its final x at the
\* midpoint of the final x of its first and of its last child.
C10_ParentAtMidpoint ==
    LayoutDone =>
        \A v \in LayoutNodes :
            ~IsLeaf(v) => 2 * x[v] = x[children[v][1]] + x[Last(children[v])]

\* a finished layout with a node of two or more children that has a left
\* sibling, was pushed right and carries a modifier
C10_Witness ==
    /\ LayoutDone
    /\ \E v \in LayoutNodes :
          /\ Len(children[v]) >= 2
          /\ LeftSibling(v) # None
          /\ shift[v] > 0
          /\ mod[v] # 0
          /\ 2 * x[v] = x[children[v][1]] + x[Last(children[v])]

\* C11: with an injective key, an emitted node is a key of leaves exactly
\* when the is_leaf flag of its source node is true and a key of branches
\* exactly when it is false, whatever children the layout node has.
C11_LeafBySourceFlag ==
    (Extracted /\ KeyInjective) =>
        \A v \in EmittedNodes :
            /\ key[v] \in Keys(leaves) <=> tree_is_leaf[v]
            /\ key[v] \in Keys(branches) <=> ~tree_is_leaf[v]

\* a returned result in which a key of leaves is the parent end of an edge
\* and a node whose children the depth limit pruned is a key of branches
C11_Witness ==
    /\ pc = "done" /\ KeyInjective
    /\ \E i \in 1..Len(edges) : edges[i][1] \in Keys(leaves)
    /\ \E v \in EmittedNodes :
          /\ SrcChildren(v) # <<>> /\ children[v] = <<>>
          /\ ~tree_is_leaf[v]
          /\ key[v] \in Keys(branches)

\* the emitted node whose id is k
NodeOfKey(k) == CHOOSE v \in EmittedNodes : key[v] = k

\* C12: with an injective key the edges are in breadth-first order: an edge
\* whose parent is on a higher level comes before every edge whose parent is
\* on a lower one, the parents of one level come in left-to-right order,
\* and the edges of one parent are consecutive, in the order of the
\* sibling_index of their children.
C12_EdgesBreadthFirst ==
    (Extracted /\ KeyInjective) =>
        \A i, j \in 1..Len(edges) :
            i < j =>
                LET pi == NodeOfKey(edges[i][1])
                    pj == NodeOfKey(edges[j][1])
                    ci == NodeOfKey(edges[i][2])
                    cj == NodeOfKey(edges[j][2])
                IN  /\ level[pi] <= level[pj]
                    /\ (level[pi] = level[pj] /\ pi # pj) => LeftOf(pi, pj)
                    /\ pi = pj =>
                          /\ sibling_index[ci] < sibling_index[cj]
                          /\ \A k \in i..j : NodeOfKey(edges[k][1]) = pi

\* a returned result with the edges of two parents of one level, the first
\* with two children, after the edges of the level above
C12_Witness ==
    /\ pc = "done" /\ KeyInjective
    /\ \E i, j \in 1..Len(edges) :
          /\ 1 < i /\ i + 1 < j
          /\ edges[i][1] = edges[i + 1][1]
          /\ edges[i][1] # edges[j][1]
          /\ level[NodeOfKey(edges[i][1])] = level[NodeOfKey(edges[j][1])]
          /\ level[NodeOfKey(edges[1][1])] < level[NodeOfKey(edges[i][1])]

\* the nodes below and including n, each with the string its path spells
RECURSIVE Reach(_, _)
Reach(n, path) ==
    {<<n, path>>} \cup
    UNION {Reach(t_children[n][i][2], Append(path, t_children[n][i][1])) :
             i \in 1..Len(t_children[n])}

IsPrefix(p, w) == Len(p) <= Len(w) /\ SubSeq(w, 1, Len(p)) = p

Prefixes ==
    UNION {{SubSeq(words[i], 1, k) : k \in 0..Len(words[i])} : i \in 1..Len(words)}

\* the first word that p is a prefix of
FirstUse(p) ==
    CHOOSE i \in 1..Len(words) :
        /\ IsPrefix(p, words[i])
        /\ \A j \in 1..(i - 1) : ~IsPrefix(p, words[j])

\* C13: build_tree returns a trie whose root has value "", whose paths
\* spell exactly the prefixes of the words (the root spelling the empty
\* one), one node for each prefix with its last character as value, whose
\* children are in the order of their first insertion, and in which a node
\* has is_leaf set exactly when its path spells one of the words.
C13_BuildTreeIsTrie ==
    pc = "built" =>
        LET R == Reach(TrieRoot, <<>>)
        IN  /\ t_value[TrieRoot] = ""
            /\ {r[2] : r \in R} = {<<>>} \cup Prefixes
            /\ {r[1] : r \in R} = 1..Len(t_value)
            /\ \A r1, r2 \in R : r1[2] = r2[2] => r1[1] = r2[1]
            /\ \A r \in R :
                  /\ r[2] # <<>> => t_value[r[1]] = Last(r[2])
                  /\ t_is_leaf[r[1]] <=> r[2] \in Range(words)
                  /\ \A i, j \in 1..Len(t_children[r[1]]) :
                        i < j =>
                           FirstUse(Append(r[2], t_children[r[1]][i][1]))
                              < FirstUse(Append(r[2], t_children[r[1]][j][1]))

\* a returned trie with a word that is a prefix of another, a prefix met
\* again by a later word, and the children "b", "a" in that order
C13_Witness ==
    /\ pc = "built"
    /\ \E n \in 1..Len(t_value) : t_is_leaf[n] /\ t_children[n] # <<>>
    /\ \E n \in 1..Len(t_value) :
          /\ Len(t_children[n]) = 2
          /\ t_children[n][1][1] = "b" /\ t_children[n][2][1] = "a"
    /\ \E i, j \in 1..Len(words) :
          i < j /\ words[i] # <<>> /\ words[j] # <<>> /\ words[i][1] = words[j][1]

\* the sum of the mod of the strict ancestors of v, in the modifiers m
RECURSIVE AncestorMods(_, _)
AncestorMods(m, v) ==
    IF parent[v] = None THEN 0 ELSE m[parent[v]] + AncestorMods(m, parent[v])

\* C14: after the second walk the final x of every node is its x at the
\* end of the first walk plus the mod of its strict ancestors, its own mod
\* left out; the second walk changed no mod, and y is still the level.
C14_SecondWalkAddsAncestorMods ==
    LayoutDone =>
        /\ prelim # <<>>
        /\ mod = prelim[1].mod
        /\ \A v \in LayoutNodes :
              /\ x[v] = prelim[1].x[v] + AncestorMods(prelim[1].mod, v)
              /\ y[v] = level[v] * Unit

\* a finished layout with a node below two ancestors with a modifier, that
\* has a modifier itself
C14_Witness ==
    /\ LayoutDone
    /\ \E v \in LayoutNodes :
          /\ mod[v] # 0
          /\ parent[v] # None /\ mod[parent[v]] # 0
          /\ parent[parent[v]] # None /\ mod[parent[parent[v]]] # 0
          /\ x[v] # prelim[1].x[v] + mod[v] + AncestorMods(mod, v)

\* _apportion is at its last statements, about to return to _first_walk
ApportionReturns == pc = "first_walk" /\ Top.at = "loop" /\ ~LoopCondition

\* this step assigns vor.thread
VorThreaded == thread'[ap.vor] # thread[ap.vor]

\* C15 as stated: whenever _apportion sets a thread on the outer-right
\* contour node, the default_ancestor it returns to _first_walk is v.
C15_Original ==
    [][(ApportionReturns /\ VorThreaded) => Top'.da = ap.v]_vars

\* C15 amended: whenever _apportion sets a thread on the outer-right contour
\* node it returns the default_ancestor it was given, a sibling to the left
\* of v; in every other call for a v with a left sibling it returns v.
C15_DefaultAncestorReturned ==
    [][ApportionReturns =>
          IF VorThreaded
          THEN /\ Top'.da = Top.da
               /\ parent[Top.da] = parent[ap.v]
               /\ sibling_index[Top.da] < sibling_index[ap.v]
          ELSE Top'.da = ap.v]_vars

\* _apportion has just returned for the child v, the right contour of v
\* ends in a thread into the subtrees to its left, and the
\* default_ancestor is not v
C15_Witness ==
    /\ pc = "first_walk" /\ Top.at = "next" /\ Top.i >= 2
    /\ LET v == children[Top.root][Top.i]
       IN  /\ Top.da # v
           /\ \E u \in LayoutNodes :
                 /\ v \in AncestorsOrSelf(parent, u)
                 /\ thread[u] # None
                 /\ v \notin AncestorsOrSelf(parent, thread[u])

\* two polar forms <<r, numerator, denominator>> of one call that give the
\* same point r * (cos, sin): the origin, or the same radius and angle
SamePoint(p, q) == (p[1] = 0 /\ q[1] = 0) \/ (p[1] = q[1] /\ p[2] = q[2])

\* C16: with rankdir RADIAL and an injective key every returned node has a
\* radius greater than 0 and an angle fraction in [0, 1), and no two
\* returned nodes have the same position.
C16_RadialDistinct ==
    (pc = "done" /\ rankdir = "RADIAL" /\ KeyInjective) =>
        \A i \in 1..Len(positions) :
            LET p == positions[i][2]
            IN  /\ p[1] > 0
                /\ 0 <= p[2] /\ p[2] < p[3]
                /\ \A j \in 1..Len(positions) :
                      i # j => ~SamePoint(p, positions[j][2])

\* _apportion has just returned for the child v of Top.root
AfterApportion == pc = "first_walk" /\ Top.at = "next"

ApportionedChild == children[Top.root][Top.i]

SubtreeNodes(v) == {u \in LayoutNodes : v \in AncestorsOrSelf(parent, u)}

\* the nodes of the subtrees of the left siblings of v
LeftSubforest(v) ==
    UNION {SubtreeNodes(children[parent[v]][k]) : k \in 1..sibling_index[v]}

\* x of u in the frame of its ancestor p: x plus the mod of the ancestors
\* of u below p
RECURSIVE FrameOffset(_, _)
FrameOffset(u, p) ==
    IF parent[u] = p THEN 0 ELSE mod[parent[u]] + FrameOffset(parent[u], p)

FrameX(u, p) == x[u] + FrameOffset(u, p)

\* on the level l, the distance from the rightmost node of the left
\* subforest of v to the leftmost node of the subtree of v
LevelGap(v, l) ==
    MinOf({FrameX(u, parent[v]) : u \in {n \in SubtreeNodes(v) : level[n] = l}})
      - MaxOf({FrameX(u, parent[v]) : u \in {n \in LeftSubforest(v) : level[n] = l}})

CommonLevels(v) ==
    {level[u] : u \in SubtreeNodes(v)} \cap {level[u] : u \in LeftSubforest(v)}

\* C17: immediately after _apportion returns for a child v with a left
\* sibling, the least distance, over the levels that the subtree of v and
\* the subtrees of its left siblings have in common, between the two on
\* that level is exactly dx.
C17_TightPacking ==
    (AfterApportion /\ Top.i >= 2) =>
        MinOf({LevelGap(ApportionedChild, l) : l \in CommonLevels(ApportionedChild)}) = dx

\* _apportion has returned for a child that it pushed right because of a
\* conflict below its own level, past a left sibling without children
C17_Witness ==
    /\ AfterApportion /\ Top.i >= 3
    /\ LET v == ApportionedChild
       IN  /\ shift[v] > 0
           /\ LevelGap(v, level[v]) > dx
           /\ IsLeaf(LeftSibling(v))
           /\ Cardinality(CommonLevels(v)) >= 2

\* the contour loop of _apportion is about to run one more iteration
LoopAdvances == pc = "first_walk" /\ Top.at = "loop" /\ LoopCondition

\* buchheim.py 64-75: the shift that iteration computes and the arguments
\* wl and wr of the call of _shift_subtrees it makes if the shift is positive
ShiftCall ==
    LET vil == NextRight(ap.vil)
        vir == NextLeft(ap.vir)
        vor == NextRight(ap.vor)
        anc1 == [ancestor EXCEPT ![vor] = ap.v]
    IN  [shift |-> ConflictShift(x[vil], ap.sil, x[vir], ap.sir),
         wl |-> Ancestor(anc1, vil, ap.v, Top.da),
         wr |-> ap.v]

\* C18: in every call _shift_subtrees(wl, wr, shift) of the first walk, wl
\* and wr are children of one parent and wl.sibling_index is less than
\* wr.sibling_index, so the divisor is at least 1 and no call fails.
C18_ShiftBetweenSiblings ==
    /\ (LoopAdvances /\ ShiftCall.shift > 0) =>
          /\ parent[ShiftCall.wl] # None
          /\ parent[ShiftCall.wl] = parent[ShiftCall.wr]
          /\ sibling_index[ShiftCall.wl] < sibling_index[ShiftCall.wr]
          /\ Subtrees(ShiftCall.wl, ShiftCall.wr) >= 1
    /\ pc # "raised"

\* a call of _shift_subtrees is due whose wl is the default_ancestor, two
\* siblings to the left of wr
C18_Witness ==
    /\ LoopAdvances /\ ShiftCall.shift > 0
    /\ ShiftCall.wl = Top.da
    /\ ancestor[NextRight(ap.vil)] \notin Range(children[parent[ap.v]])
    /\ Subtrees(ShiftCall.wl, ShiftCall.wr) = 2

\* C19: whenever the contour loop of _apportion advances, vol.next_left and
\* vor.next_right are nodes, so the first walk never fails on a missing
\* node; and a thread is only ever assigned to a node without children and
\* without a thread, its target being one level below that node.
C19_ContoursAndThreads ==
    /\ [](LoopAdvances => (NextLeft(ap.vol) # None /\ NextRight(ap.vor) # None))
    /\ [](pc # "raised")
    /\ [][pc = "first_walk" =>
             \A u \in LayoutNodes :
                thread'[u] # thread[u] =>
                   /\ children[u] = <<>>
                   /\ thread[u] = None
                   /\ thread'[u] \in LayoutNodes
                   /\ level[thread'[u]] = level[u] + 1]_vars

\* the contour loop advances with its outer-left pointer on a node without
\* children, over a thread, while another thread leads out of the subtree
\* of v
C19_Witness ==
    /\ LoopAdvances
    /\ IsLeaf(ap.vol) /\ thread[ap.vol] # None
    /\ IsLeaf(ap.vil) /\ thread[ap.vil] # None
    /\ ap.vol # ap.vil
    /\ \E u \in LayoutNodes : u \notin {ap.vol, ap.vil} /\ thread[u] # None

\* the node reached from v by taking the first child as long as there is one
RECURSIVE FirstDescendant(_)
FirstDescendant(v) == IF IsLeaf(v) THEN v ELSE FirstDescendant(children[v][1])

MinFinalX == MinOf({x[v] : v \in LayoutNodes})

\* C20 as stated: after buchheim every final x is at least 0 and the least
\* final x is exactly 0, so the boundary box has x_min = 0 and _second_walk
\* returns 0.
C20_Original ==
    LayoutDone =>
        /\ \A v \in LayoutNodes : x[v] >= 0
        /\ MinFinalX = 0
        /\ bbox[1] = 0
        /\ min_x = <<0>>

\* C20 amended: after buchheim the node reached from the layout root by
\* first children has final x exactly 0, so the least final x is at most 0
\* (it can be negative); the boundary box has that least x as x_min, and
\* _second_walk returns it.
C20_LeftmostPathAtZero ==
    LayoutDone =>
        /\ x[FirstDescendant(LayoutRoot)] = 0
        /\ MinFinalX <= 0
        /\ bbox[1] = MinFinalX
        /\ min_x = <<MinFinalX>>

\* a finished layout with a node left of the first-child path, at negative x
C20_Witness ==
    /\ LayoutDone
    /\ MinFinalX < 0
    /\ bbox[1] < 0
    /\ x[FirstDescendant(LayoutRoot)] = 0

====
